---------------------------- MODULE Spec2Model ----------------------------
(***************************************************************************)
(* Model of the table-uniformity scorer of CSVsniffer                      *)
(* (python/src/table_uniformity_MAD_EPY.py, table_score_MAD_EPY.py).        *)
(*                                                                         *)
(* Python floats are IEEE-754 binary64 numbers.  Several results of the    *)
(* scorer depend on the rounding of each operation (a mean of equal        *)
(* numbers need not equal them), so floats are modelled bit for bit: a     *)
(* float is a sign, a 53-bit mantissa and an exponent, and every operation *)
(* rounds its exact result to nearest, ties to even.  The mantissa is kept *)
(* in two 28-bit words because TLC's integers have 32 bits.  Infinities,   *)
(* NaN, subnormals and the sign of zero never arise for the values the     *)
(* scorer handles and are left out.                                        *)
(***************************************************************************)
EXTENDS Integers, Sequences, FiniteSets, TLC

----------------------------------------------------------------------------
(* Wide naturals <<h, l>> = h * 2^28 + l, l < 2^28.                        *)

W == 2^28

MantBits == 52 + 1

(* The number of bits of n, 0 <= n < 2^31. *)
BitLen(n) ==
    IF n >= 2^30 THEN 31
    ELSE CHOOSE k \in 0..30 : n < 2^k /\ (k = 0 \/ n >= 2^(k - 1))

WZero(w) == w[1] = 0 /\ w[2] = 0

WCmp(a, b) ==
    IF a[1] # b[1] THEN (IF a[1] > b[1] THEN 1 ELSE -1)
    ELSE IF a[2] # b[2] THEN (IF a[2] > b[2] THEN 1 ELSE -1)
    ELSE 0

WAdd(a, b) == LET l == a[2] + b[2] IN <<a[1] + b[1] + (l \div W), l % W>>

WSub(a, b) ==
    LET l == a[2] - b[2]
    IN  IF l < 0 THEN <<a[1] - b[1] - 1, l + W>> ELSE <<a[1] - b[1], l>>

WBits(w) == IF w[1] # 0 THEN 28 + BitLen(w[1]) ELSE BitLen(w[2])

RECURSIVE WShl(_, _)
WShl(w, k) ==
    IF k = 0 THEN w
    ELSE IF k >= 28 THEN WShl(<<w[2], 0>>, k - 28)
    ELSE LET cut == 2^(28 - k)
         IN  <<w[1] * 2^k + (w[2] \div cut), (w[2] % cut) * 2^k>>

WShr(w, k) ==
    IF k = 0 THEN w
    ELSE IF k >= 59 THEN <<0, 0>>
    ELSE IF k >= 28 THEN <<0, w[1] \div 2^(k - 28)>>
    ELSE <<w[1] \div 2^k, (w[1] % 2^k) * 2^(28 - k) + (w[2] \div 2^k)>>

(* Whether one of the k lowest bits of w is set. *)
WLost(w, k) ==
    IF k = 0 THEN FALSE
    ELSE IF k >= 59 THEN ~WZero(w)
    ELSE IF k >= 28 THEN w[2] # 0 \/ w[1] % 2^(k - 28) # 0
    ELSE w[2] % 2^k # 0

(* w with its lowest bit set when s: the sticky bit of a rounding. *)
WJam(w, s) == IF s /\ w[2] % 2 = 0 THEN <<w[1], w[2] + 1>> ELSE w

----------------------------------------------------------------------------
(* Floats: sg * (h * 2^28 + l) * 2^e with 2^52 <= h * 2^28 + l < 2^53,     *)
(* or zero.                                                                *)

FZero == [sg |-> 1, h |-> 0, l |-> 0, e |-> 0]

FIsZero(a) == a.h = 0 /\ a.l = 0

FMant(a) == <<a.h, a.l>>

(* sg * q * 2^e for a q of MantBits bits, or of one more after a carry. *)
FPack(sg, q, e) ==
    IF WBits(q) > MantBits
    THEN [sg |-> sg, h |-> 2^24, l |-> 0, e |-> e + 1]
    ELSE [sg |-> sg, h |-> q[1], l |-> q[2], e |-> e]

(* q, or q + 1 when the bits cut off say so: to nearest, ties to even. *)
RoundUp(q, rem, half) ==
    IF rem > half \/ (rem = half /\ q[2] % 2 = 1) THEN WAdd(q, <<0, 1>>) ELSE q

(* w of nbits bits as a float: shifted left to MantBits bits, or cut to    *)
(* MantBits bits and rounded.                                              *)
FRoundBits(sg, w, e, nbits) ==
    IF nbits <= MantBits
    THEN FPack(sg, WShl(w, MantBits - nbits), e - (MantBits - nbits))
    ELSE FPack(sg, RoundUp(WShr(w, nbits - MantBits),
                           w[2] % 2^(nbits - MantBits),
                           2^(nbits - MantBits - 1)),
               e + (nbits - MantBits))

(* The float nearest to sg * w * 2^e, ties to even.  A w that carries a    *)
(* sticky bit has at least MantBits + 2 bits.                              *)
FRound(sg, w, e) ==
    IF WZero(w) THEN FZero ELSE FRoundBits(sg, w, e, WBits(w))

FromInt(n) ==
    FRound(IF n < 0 THEN -1 ELSE 1,
           IF n < 0 THEN <<(-n) \div W, (-n) % W>> ELSE <<n \div W, n % W>>, 0)

FNeg(a) == IF FIsZero(a) THEN a ELSE [a EXCEPT !.sg = -a.sg]

FAbs(a) == [a EXCEPT !.sg = 1]

(* -1, 0, 1 as a < b, a = b, a > b. *)
FCmp(a, b) ==
    LET sa == IF FIsZero(a) THEN 0 ELSE a.sg
        sb == IF FIsZero(b) THEN 0 ELSE b.sg
        mag == IF a.e # b.e THEN (IF a.e > b.e THEN 1 ELSE -1)
               ELSE WCmp(FMant(a), FMant(b))
    IN  IF sa # sb THEN (IF sa > sb THEN 1 ELSE -1)
        ELSE IF sa = 0 THEN 0
        ELSE sa * mag

FLt(a, b) == FCmp(a, b) < 0
FLe(a, b) == FCmp(a, b) <= 0
FGt(a, b) == FCmp(a, b) > 0

(* w shifted right by k bits, the bits lost kept as a sticky bit. *)
WShrSticky(w, k) == WJam(WShr(w, k), WLost(w, k))

(* sa * ma * 2^e + sb * mb * 2^e. *)
FAddAligned(sa, ma, sb, mb, e) ==
    FRound(IF sa = sb \/ WCmp(ma, mb) >= 0 THEN sa ELSE sb,
           IF sa = sb THEN WAdd(ma, mb)
           ELSE IF WCmp(ma, mb) >= 0 THEN WSub(ma, mb)
           ELSE WSub(mb, ma),
           e)

(* big + small for big.e >= small.e.  Both mantissas get three guard bits; *)
(* the smaller operand is shifted right to the larger one's exponent.      *)
FAddOrdered(big, small) ==
    FAddAligned(big.sg, WShl(FMant(big), 3),
                small.sg, WShrSticky(WShl(FMant(small), 3), big.e - small.e),
                big.e - 3)

FAdd(a, b) ==
    IF FIsZero(a) THEN b
    ELSE IF FIsZero(b) THEN a
    ELSE FAddOrdered(IF a.e >= b.e THEN a ELSE b, IF a.e >= b.e THEN b ELSE a)

FSub(a, b) == FAdd(a, FNeg(b))

(* The limbs d[1], d[2], ... of the sum of the columns c[1], c[2], ... of a *)
(* long multiplication in base 2^14: d[1] is the lowest.                   *)
RECURSIVE Carry(_, _, _)
Carry(c, i, carry) ==
    IF i > Len(c) THEN <<carry>>
    ELSE <<(c[i] + carry) % 2^14>> \o Carry(c, i + 1, (c[i] + carry) \div 2^14)

(* The 56 highest bits of the 106-bit product d, the rest as a sticky bit. *)
FMulCut(sg, d, e) ==
    FRound(sg,
           WJam(<<(d[6] \div 256) + d[7] * 64 + d[8] * 2^20,
                  (d[4] \div 256) + d[5] * 64 + (d[6] % 256) * 2^20>>,
                d[1] # 0 \/ d[2] # 0 \/ d[3] # 0 \/ d[4] % 256 # 0),
           e)

(* The 14-bit limbs of a mantissa, the lowest first. *)
Limbs(a) == <<a.l % 2^14, a.l \div 2^14, a.h % 2^14, a.h \div 2^14>>

(* The columns of the long multiplication of x by y. *)
Columns(x, y) ==
    <<x[1] * y[1],
      x[1] * y[2] + x[2] * y[1],
      x[1] * y[3] + x[2] * y[2] + x[3] * y[1],
      x[1] * y[4] + x[2] * y[3] + x[3] * y[2] + x[4] * y[1],
      x[2] * y[4] + x[3] * y[3] + x[4] * y[2],
      x[3] * y[4] + x[4] * y[3],
      x[4] * y[4]>>

(* a * b: the exact 106-bit product in 14-bit limbs, cut to its 56 highest *)
(* bits.                                                                   *)
FMul(a, b) ==
    IF FIsZero(a) \/ FIsZero(b) THEN FZero
    ELSE FMulCut(a.sg * b.sg, Carry(Columns(Limbs(a), Limbs(b)), 1, 0),
                 a.e + b.e + 50)

(* w * q for q < 2^6 and w < 2^53. *)
WMulSmall(w, q) ==
    LET lo == (w[2] % 2^14) * q
        mid == (w[2] \div 2^14) * q + (lo \div 2^14)
    IN  <<w[1] * q + (mid \div 2^14), (mid % 2^14) * 2^14 + (lo % 2^14)>>

(* <<q, rem>>, or <<q + 1, rem - d>> when rem >= d. *)
DivCorrect(q, rem, d) ==
    IF WCmp(rem, d) >= 0 THEN <<WAdd(q, <<0, 1>>), WSub(rem, d)>> ELSE <<q, rem>>

(* q6 + est and r6 - est * d, corrected. *)
DivEstimate(q6, r6, d, est) ==
    DivCorrect(WAdd(q6, <<0, est>>), WSub(r6, WMulSmall(d, est)), d)

(* Six bits of the long division by d, 2^52 <= d < 2^53: from <<q, r>>     *)
(* with r < d.  The digit floor(64 r / d) is estimated from the high words *)
(* and is at most one too small.                                           *)
DivDigit(qr, d) ==
    DivEstimate(WShl(qr[1], 6), WShl(qr[2], 6), d,
                WShl(qr[2], 6)[1] \div (d[1] + 1))

(* <<q, r>> after k more digits of the long division by d.  (The test of  *)
(* q makes TLC work out one digit before it starts on the next.)           *)
RECURSIVE DivSteps(_, _, _)
DivSteps(qr, d, k) ==
    IF k = 0 \/ qr[1][1] < 0 THEN qr ELSE DivSteps(DivDigit(qr, d), d, k - 1)

(* The quotient qr[1] rounded, the remainder qr[2] as its sticky bit. *)
FDivRound(sg, qr, e) == FRound(sg, WJam(qr[1], ~WZero(qr[2])), e)

(* sg * (ma / mb) * 2^(e + 54) for mb <= ma < 2 mb: the quotient           *)
(* floor(ma * 2^54 / mb) has 55 bits.                                      *)
FDivScaled(sg, ma, mb, e) ==
    FDivRound(sg, DivSteps(<<<<0, 1>>, WSub(ma, mb)>>, mb, 9), e)

(* a / b for b # 0, with the mantissa of a scaled into [mb, 2 mb). *)
FDiv(a, b) ==
    IF FIsZero(a) THEN FZero
    ELSE FDivScaled(a.sg * b.sg,
                    IF WCmp(FMant(a), FMant(b)) >= 0
                    THEN FMant(a) ELSE WShl(FMant(a), 1),
                    FMant(b),
                    a.e - b.e - 54 - (IF WCmp(FMant(a), FMant(b)) >= 0 THEN 0 ELSE 1))

----------------------------------------------------------------------------
(* Float literals of the source, and math.log2.                            *)

F0 == FZero
F1 == [sg |-> 1, h |-> 2^24, l |-> 0, e |-> -52]
F2 == [sg |-> 1, h |-> 2^24, l |-> 0, e |-> -51]

(* 1.4826, 100.0 and 0.1: the float nearest to the decimal literal. *)
MadScale == FDiv(FromInt(7413), FromInt(5000))
ScoreTyped == FromInt(100)
ScoreUntyped == FDiv(F1, FromInt(10))

(* math.log2 at the probabilities count / n met for n <= 6, as the C       *)
(* library returns them: <<count, n, h, l, e>> is log2(count / n) =        *)
(* -(h * 2^28 + l) * 2^e.                                                  *)
Log2Values ==
    { <<1, 2, 16777216, 0, -52>>,
      <<1, 3, 26591258, 60800361, -52>>,
      <<2, 3, 19628084, 121600722, -53>>,
      <<1, 4, 16777216, 0, -51>>,
      <<3, 4, 27852695, 25234014, -54>>,
      <<1, 5, 19477744, 158966641, -51>>,
      <<2, 5, 22178273, 49497826, -52>>,
      <<3, 5, 24728461, 245830389, -53>>,
      <<4, 5, 21604228, 197991306, -54>>,
      <<1, 6, 21684237, 30400180, -51>>,
      <<5, 6, 17651940, 45210134, -54>> }

Log2Table ==
    { [p |-> FDiv(FromInt(v[1]), FromInt(v[2])),
       log |-> [sg |-> -1, h |-> v[3], l |-> v[4], e |-> v[5]]] : v \in Log2Values }

Log2(p) == IF p = F1 THEN F0 ELSE (CHOOSE r \in Log2Table : r.p = p).log

----------------------------------------------------------------------------
(* Sequences of floats.                                                    *)

RECURSIVE FSum(_)
FSum(xs) == IF xs = <<>> THEN F0 ELSE FAdd(FSum(SubSeq(xs, 1, Len(xs) - 1)), xs[Len(xs)])

RECURSIVE FMax(_)
FMax(xs) ==
    IF Len(xs) = 1 THEN xs[1]
    ELSE LET m == FMax(SubSeq(xs, 1, Len(xs) - 1))
         IN  IF FGt(xs[Len(xs)], m) THEN xs[Len(xs)] ELSE m

RECURSIVE Insert(_, _)
Insert(x, s) ==
    IF s = <<>> THEN <<x>>
    ELSE IF FLt(x, s[1]) THEN <<x>> \o s
    ELSE <<s[1]>> \o Insert(x, Tail(s))

RECURSIVE Sorted(_)
Sorted(xs) == IF xs = <<>> THEN <<>> ELSE Insert(xs[Len(xs)], Sorted(SubSeq(xs, 1, Len(xs) - 1)))

(* The middle of a sorted sequence: its middle element, or the mean of its *)
(* two middle elements.                                                    *)
Middle(xs) ==
    IF Len(xs) % 2 = 1 THEN xs[(Len(xs) \div 2) + 1]
    ELSE FDiv(FAdd(xs[Len(xs) \div 2], xs[(Len(xs) \div 2) + 1]), F2)

(* statistics.median of a non-empty sequence. *)
median(xs) == Middle(Sorted(xs))

(* The distinct elements of s in the order of their first occurrence: the  *)
(* keys of Counter(s).                                                     *)
RECURSIVE Keys(_)
Keys(s) ==
    IF s = <<>> THEN <<>>
    ELSE LET k == Keys(SubSeq(s, 1, Len(s) - 1))
         IN  IF \E i \in 1..Len(k) : k[i] = s[Len(s)] THEN k ELSE Append(k, s[Len(s)])

Count(s, x) == Cardinality({i \in 1..Len(s) : s[i] = x})

(* The Shannon entropy loop over Counter(s).values(), n = len(s) > 0. *)
EntropyTerm(entropy, p) ==
    IF FGt(p, F0) THEN FSub(entropy, FMul(p, Log2(p))) ELSE entropy

RECURSIVE EntropyOver(_, _, _)
EntropyOver(s, keys, j) ==
    IF j = 0 THEN F0
    ELSE EntropyTerm(EntropyOver(s, keys, j - 1),
                     FDiv(FromInt(Count(s, keys[j])), FromInt(Len(s))))

Entropy(s) == EntropyOver(s, Keys(s), Len(Keys(s)))

----------------------------------------------------------------------------
(* Collaborators that are not part of the scored source: the dialect, the  *)
(* quote stripper and the type classifier.                                 *)

Quote == "\""

Digits == {"0", "1", "2", "3", "4", "5", "6", "7", "8", "9"}

NoDialect == [none |-> TRUE, delimiter |-> "", quotechar |-> ""]

GoodDialect == [none |-> FALSE, delimiter |-> ",", quotechar |-> Quote]

BadDialect == [none |-> FALSE, delimiter |-> "", quotechar |-> Quote]

(* Dialect.validate: whether the dialect reports itself well formed. *)
DialectValid(d) == d.delimiter # ""

startswith(field, q) == Len(field) >= 1 /\ field[1] = q

endswith(field, q) == Len(field) >= 1 /\ field[Len(field)] = q

trip_quotes(field, dia) ==
    IF Len(field) >= 2 /\ startswith(field, dia.quotechar)
                       /\ endswith(field, dia.quotechar)
    THEN SubSeq(field, 2, Len(field) - 1)
    ELSE field

(* type_detector.detect_type: a type tag, or "None". *)
detect_type(value, is_quoted) ==
    IF value # <<>> /\ \A i \in 1..Len(value) : value[i] \in Digits
    THEN "int"
    ELSE "None"

----------------------------------------------------------------------------
(* The bounded inputs.                                                     *)

MaxRows == 2
MaxFields == 2
MaxScanRows == 5
MaxCount == 2
MaxCols == 3
MaxWide == 6

FieldX == <<"x">>

FieldQ == <<Quote, "1", Quote>>

(* A row of c fields: all unquoted text, all quoted numbers, or the two in *)
(* turn.                                                                   *)
KindRow(kind, c) ==
    [j \in 1..c |-> IF kind = "x" \/ (kind = "m" /\ j % 2 = 0) THEN FieldX ELSE FieldQ]

RowsUpTo(kinds, c) == {KindRow(k, n) : k \in kinds, n \in 0..c}

SeqsUpTo(S, n) == UNION {[1..m -> S] : m \in 0..n}

MainTables == SeqsUpTo(RowsUpTo({"x", "q", "m"}, MaxFields), MaxRows)

ScanTables == SeqsUpTo(RowsUpTo({"x"}, MaxCount), MaxScanRows) \ {<<>>}

(* One record of up to MaxWide fields. *)
WideTables == {<<row>> : row \in RowsUpTo({"x", "q", "m"}, MaxWide)}

Deltas == {0, 1, 2, 10^7, 10^7 + 1}

(* The averages a column of one or two records can have. *)
ColumnAverages ==
    LET S == {F0, ScoreUntyped, ScoreTyped}
    IN  S \cup {FDiv(FAdd(a, b), F2) : a \in S, b \in S}

ScoreLists == SeqsUpTo(ColumnAverages, MaxCols)

----------------------------------------------------------------------------
(* class t_uniformity.  An instance is [table, dialect, lambda_sum]; a     *)
(* table is [none, rows], none standing for Python's None.                 *)

NoTable == [none |-> TRUE, rows |-> <<>>]

SomeTable(rows) == [none |-> FALSE, rows |-> rows]

t_uniformity(tbl, dia) ==
    [table |-> tbl, dialect |-> dia, lambda_sum |-> F0]

(* validate(): TRUE when it raises ValueError. *)
validate(self) == self.table.none \/ self.dialect.none

field_lengths(rows) == [i \in 1..Len(rows) |-> Len(rows[i])]

(* tau_0, lines 125-132. *)
(* Lines 128-129: the scaled median of the distances from med. *)
mad(k_values, med) ==
    FMul(median([i \in 1..Len(k_values) |-> FAbs(FSub(k_values[i], med))]),
         MadScale)

(* Line 130: 1 / den, or 1 when den is 0. *)
inverse(den) == IF den # F0 THEN FDiv(F1, den) ELSE F1

tau_0(fl) ==
    IF Len(fl) > 1
    THEN LET k_values == [i \in 1..Len(fl) |-> FromInt(fl[i])]
         IN  inverse(FAdd(F1, FMul(F2, mad(k_values, median(k_values)))))
    ELSE F1

(* ScanStep with the minimum and maximum restarted at the second record. *)
ScanStepFromSecond(st, fl, i) ==
    LET n   == Len(fl)
        k_i == fl[i]
        k_max == IF i = 2 \/ k_i > st.k_max THEN k_i ELSE st.k_max
        k_min == IF i = 2 \/ k_i < st.k_min THEN k_i ELSE st.k_min
    IN  IF i = 1
        THEN [st EXCEPT !.c = st.c + 1, !.sm = IF n = 1 THEN st.c + 1 ELSE st.sm]
        ELSE IF fl[i - 1] # k_i
        THEN [c |-> 0, sm |-> IF st.c > st.sm THEN st.c ELSE st.sm,
              alpha |-> st.alpha + 1, k_max |-> k_max, k_min |-> k_min]
        ELSE [c |-> st.c + 1,
              sm |-> IF i = n /\ st.c + 1 > st.sm THEN st.c + 1 ELSE st.sm,
              alpha |-> st.alpha, k_max |-> k_max, k_min |-> k_min]

(* The loop of lines 136-161 at Python index i - 1.  The accumulator mu of *)
(* line 141 is never read and is left out.                                 *)
ScanStep(st, fl, i) ==
    LET n   == Len(fl)
        k_i == fl[i]
    IN  IF i = 1
        THEN [st EXCEPT !.c = st.c + 1,
                        !.sm = IF n = 1 THEN st.c + 1 ELSE st.sm]
        ELSE LET k_max == IF k_i > st.k_max THEN k_i ELSE st.k_max
                 k_min == IF k_i < st.k_min THEN k_i ELSE st.k_min
             IN  IF fl[i - 1] # k_i
                 THEN [c |-> 0,
                       sm |-> IF st.c > st.sm THEN st.c ELSE st.sm,
                       alpha |-> st.alpha + 1,
                       k_max |-> k_max, k_min |-> k_min]
                 ELSE [c |-> st.c + 1,
                       sm |-> IF i = n /\ st.c + 1 > st.sm THEN st.c + 1 ELSE st.sm,
                       alpha |-> st.alpha,
                       k_max |-> k_max, k_min |-> k_min]

RECURSIVE ScanUpTo(_, _)
ScanUpTo(fl, i) ==
    IF i = 0
    THEN [c |-> 0, sm |-> 0, alpha |-> 0, k_max |-> fl[1], k_min |-> fl[1]]
    ELSE ScanStep(ScanUpTo(fl, i - 1), fl, i)

Scan(fl) == ScanUpTo(fl, Len(fl))

(* base_tau_1, lines 162-167. *)
base_tau_1(fl) ==
    LET st == Scan(fl)
        n  == Len(fl)
        r  == st.k_max - st.k_min
    IN  IF st.alpha > 0 /\ st.sm > 0
        THEN LET beta == FDiv(FromInt(st.sm), FromInt(n))
                 pow  == FMul(FromInt(st.alpha), FromInt(st.alpha))
             IN  FMul(FMul(FromInt(2 * r), FAdd(pow, F1)),
                      FDiv(FSub(F1, beta), FromInt(st.sm)))
        ELSE F0

(* tau_1, lines 169-176. *)
tau_1(fl) == FMul(base_tau_1(fl), FAdd(F1, Entropy(fl)))

avg_fields(self) ==
    LET fl == field_lengths(self.table.rows)
        RECURSIVE nk(_)
        nk(i) == IF i = 0 THEN 0 ELSE nk(i - 1) + fl[i]
    IN  IF self.table.rows # <<>>
        THEN FDiv(FromInt(nk(Len(fl))), FromInt(Len(fl)))
        ELSE F0

(* Lines 78-81: the score of one field. *)
field_score(field, dia) ==
    LET cleaned_field == trip_quotes(field, dia)
        is_quoted == startswith(field, dia.quotechar)
                     /\ endswith(field, dia.quotechar)
    IN  IF detect_type(cleaned_field, is_quoted) # "None"
        THEN ScoreTyped
        ELSE ScoreUntyped

(* Lines 82-83: one field's score added to the totals. *)
AddScore(acc, j, score) ==
    [total_field_scores |-> FAdd(acc.total_field_scores, score),
     column_scores |-> [acc.column_scores EXCEPT ![j] = FAdd(@, score)]]

(* Lines 76-83 for the first j fields of a row.  (CHOOSE over a singleton  *)
(* makes TLC finish the shorter loop before it starts on the next field.)  *)
RECURSIVE ScoreRow(_, _, _, _)
ScoreRow(acc, row, dia, j) ==
    IF j = 0 THEN acc
    ELSE CHOOSE r \in {AddScore(a, j, field_score(row[j], dia)) :
                          a \in {ScoreRow(acc, row, dia, j - 1)}} : TRUE

(* Lines 72-83 for the first i rows. *)
RECURSIVE ScoreRows(_, _, _, _)
ScoreRows(rows, dia, num_cols, i) ==
    IF i = 0
    THEN [total_field_scores |-> F0, column_scores |-> [j \in 1..num_cols |-> F0]]
    ELSE CHOOSE r \in {ScoreRow(a, rows[i], dia, Len(rows[i])) :
                          a \in {ScoreRows(rows, dia, num_cols, i - 1)}} : TRUE

(* The length of the first record in place of the longest. *)
FirstLen(rows) == Len(rows[1])

MaxLen(rows) ==
    CHOOSE m \in {Len(rows[i]) : i \in 1..Len(rows)} :
        \A i \in 1..Len(rows) : Len(rows[i]) <= m

NumFields(rows) ==
    LET RECURSIVE nf(_)
        nf(i) == IF i = 0 THEN 0 ELSE nf(i - 1) + Len(rows[i])
    IN  nf(Len(rows))

(* Lines 70-87 of compute_type_scores() on a non-empty table: the column  *)
(* averages, the value stored in self.lambda_sum and the classifier calls. *)
type_scores(rows, dia) ==
    LET num_cols == MaxLen(rows)
        num_rows == Len(rows)
        acc == ScoreRows(rows, dia, num_cols, num_rows)
    IN  [kind |-> "return",
         val |-> [j \in 1..num_cols |->
                     FDiv(acc.column_scores[j], FromInt(num_rows))],
         lambda_sum |-> IF num_cols > 0
                        THEN FDiv(acc.total_field_scores, FromInt(num_cols))
                        ELSE F0,
         detects |-> NumFields(rows)]

(* type_scores of every table the specifications start from, tabulated.    *)
TypeScoresOf ==
    [rows \in (MainTables \cup WideTables) \ {<<>>},
     d \in {GoodDialect, BadDialect} |-> type_scores(rows, d)] @@ <<>>

(* compute_type_scores(): what it returns or raises, the value it leaves   *)
(* in self.lambda_sum, and the number of classifier calls it made.         *)
compute_type_scores(self) ==
    LET rows == self.table.rows
    IN  IF self.table.none \/ rows = <<>>
        THEN [kind |-> "return", val |-> <<>>,
              lambda_sum |-> self.lambda_sum, detects |-> 0]
        ELSE IF self.dialect.none
        THEN IF NumFields(rows) > 0
             THEN [kind |-> "AttributeError", val |-> <<>>,
                   lambda_sum |-> self.lambda_sum, detects |-> 0]
             ELSE [kind |-> "return", val |-> <<>>, lambda_sum |-> F0, detects |-> 0]
        ELSE TypeScoresOf[rows, self.dialect]

(* Line 95: the largest deviation, or 1 when it is not positive. *)
max_var(largest) == IF FGt(largest, F0) THEN largest ELSE F1

(* Line 96: the mean of 1 - v / max_var over the deviations v. *)
consistency(variances, max) ==
    FDiv(FSum([j \in 1..Len(variances) |-> FSub(F1, FDiv(variances[j], max))]),
         FromInt(Len(variances)))

(* Line 94: the distances of the column scores from their mean. *)
deviations(column_scores, mean_score) ==
    [j \in 1..Len(column_scores) |-> FAbs(FSub(column_scores[j], mean_score))]

(* Lines 95-96 on the list of deviations. *)
tau2_of(variances) == consistency(variances, max_var(FMax(variances)))

compute_tau2(column_scores) ==
    IF column_scores = <<>> THEN F0
    ELSE tau2_of(deviations(column_scores,
                            FDiv(FSum(column_scores), FromInt(Len(column_scores)))))

(* The field count alone in place of the shape. *)
CountOnly(row) == <<Len(row)>>

(* The shape of a row: the lengths of its cells. *)
structure(row) == [j \in 1..Len(row) |-> Len(row[j])]

row_structures(rows) == [i \in 1..Len(rows) |-> structure(rows[i])]

(* compute_tau3() on a table that is not None. *)
compute_tau3(self) ==
    IF Len(self.table.rows) = 0 THEN F0
    ELSE Entropy(row_structures(self.table.rows))

----------------------------------------------------------------------------
(* compute() and overall_score().                                          *)

(* metrics reporting self.lambda_sum as it was before the type scoring. *)
metrics_stale(self, ts) ==
    LET fl == field_lengths(self.table.rows)
    IN  [kind |-> "return",
         val |-> <<tau_0(fl), tau_1(fl), compute_tau2(ts.val),
                   compute_tau3([self EXCEPT !.lambda_sum = ts.lambda_sum]),
                   self.lambda_sum>>,
         lambda_sum |-> ts.lambda_sum,
         detects |-> ts.detects]

(* Lines 122-190 of compute() on a non-empty table, ts being what line 178 *)
(* got from compute_type_scores(), which stored ts.lambda_sum in           *)
(* self.lambda_sum: the metric vector returned, the self.lambda_sum left   *)
(* and the classifier calls made.                                          *)
metrics(self, ts) ==
    LET fl == field_lengths(self.table.rows)
    IN  [kind |-> "return",
         val |-> <<tau_0(fl), tau_1(fl), compute_tau2(ts.val),
                   compute_tau3([self EXCEPT !.lambda_sum = ts.lambda_sum]),
                   ts.lambda_sum>>,
         lambda_sum |-> ts.lambda_sum,
         detects |-> ts.detects]

(* The instances the main specification reaches with a non-empty table:    *)
(* self.lambda_sum is 0 or the value compute_type_scores() left.           *)
Instances ==
    UNION {{[table |-> SomeTable(rows), dialect |-> d, lambda_sum |-> ls] :
               ls \in {F0, TypeScoresOf[rows, d].lambda_sum}} :
           rows \in MainTables \ {<<>>}, d \in {GoodDialect, BadDialect}}

(* metrics tabulated on Instances.  (With @@ TLC tabulates the function    *)
(* once instead of evaluating it at every application.)                    *)
MetricsOf ==
    [self \in Instances |-> metrics(self, compute_type_scores(self))] @@ <<>>

(* compute() clearing self.lambda_sum on an empty table. *)
compute_clearing(self) ==
    IF validate(self)
    THEN [kind |-> "ValueError", val |-> <<>>,
          lambda_sum |-> self.lambda_sum, detects |-> 0]
    ELSE IF Len(self.table.rows) = 0
    THEN [kind |-> "return", val |-> <<F0, F0, F0, F0, F0>>,
          lambda_sum |-> F0, detects |-> 0]
    ELSE MetricsOf[self]

(* compute(): what it returns or raises, and the self.lambda_sum it leaves. *)
compute(self) ==
    IF validate(self)
    THEN [kind |-> "ValueError", val |-> <<>>,
          lambda_sum |-> self.lambda_sum, detects |-> 0]
    ELSE IF Len(self.table.rows) = 0
    THEN [kind |-> "return", val |-> <<F0, F0, F0, F0, F0>>,
          lambda_sum |-> self.lambda_sum, detects |-> 0]
    ELSE MetricsOf[self]

(* omega with tau_0 multiplied by delta. *)
omega_times(val, n, delta) ==
    IF FAdd(val[2], FromInt(n)) = F0 \/ FAdd(val[4], F1) = F0
    THEN [kind |-> "return", val |-> <<F0>>]
    ELSE IF delta = 0
    THEN [kind |-> "ZeroDivisionError", val |-> <<>>]
    ELSE [kind |-> "return",
          val |-> <<FAdd(FAdd(FAdd(FMul(val[1], FromInt(delta)),
                                   FDiv(F1, FAdd(val[2], FromInt(n)))),
                              FDiv(val[3], FromInt(n))),
                         FMul(FDiv(F1, FMul(FAdd(F1, val[4]), FromInt(n))), val[5]))>>]

(* Lines 195-200 of overall_score(): the score, or the exception raised. *)
omega(val, n, delta) ==
    LET t0 == val[1]
        t1 == val[2]
        t2 == val[3]
        t3 == val[4]
        ls == val[5]
    IN  IF FAdd(t1, FromInt(n)) = F0 \/ FAdd(t3, F1) = F0
        THEN [kind |-> "return", val |-> <<F0>>]
        ELSE IF delta = 0
        THEN [kind |-> "ZeroDivisionError", val |-> <<>>]
        ELSE [kind |-> "return",
              val |-> <<FAdd(FAdd(FAdd(FDiv(t0, FromInt(delta)),
                                       FDiv(F1, FAdd(t1, FromInt(n)))),
                                  FDiv(t2, FromInt(n))),
                             FMul(FDiv(F1, FMul(FAdd(F1, t3), FromInt(n))), ls))>>]

(* Lines 194-200 of overall_score(): what compute() raised, or the score  *)
(* or exception of omega.                                                  *)
scored(m, o) ==
    IF m.kind # "return" THEN m ELSE [m EXCEPT !.kind = o.kind, !.val = o.val]

(* omega of the metrics of Instances, tabulated. *)
OmegaOf ==
    [self \in Instances, delta \in Deltas |->
        omega(MetricsOf[self].val, Len(self.table.rows), delta)] @@ <<>>

(* overall_score(delta), delta an integer. *)
overall_score(self, delta) ==
    scored(compute(self),
           IF self \in Instances
           THEN OmegaOf[self, delta]
           ELSE omega(compute(self).val, Len(self.table.rows), delta))

(* class t_score: validate() raises ValueError. *)
t_score_validate(csv_path, d) ==
    csv_path = "None" \/ Len(csv_path) = 0 \/ d.none

(* t_score.compute(): past validate() and the parser, line 68 builds a     *)
(* t_uniformity without its third argument lambda_sum.                     *)
t_score_compute(csv_path, d) ==
    IF t_score_validate(csv_path, d) THEN "ValueError" ELSE "TypeError"

----------------------------------------------------------------------------
(* The state machine: one t_uniformity instance and its caller.            *)

VARIABLES
    table,          \* self.table
    dialect,        \* self.dialect
    lambda_sum,     \* self.lambda_sum
    scores,  \* the list of column averages the caller holds
    ret             \* the last call: operation, outcome, argument, value

vars == <<table, dialect, lambda_sum, scores, ret>>

instance == [table |-> table, dialect |-> dialect, lambda_sum |-> lambda_sum]

NoCall ==
    [op |-> "none", kind |-> "none", delta |-> 0, val |-> <<>>, detects |-> 0]

Call(op, kind, delta, val, detects) ==
    [op |-> op, kind |-> kind, delta |-> delta, val |-> val, detects |-> detects]

(* __init__ on a table and a dialect, either of which may be None. *)
New(tables, dialects) ==
    /\ \E t \in tables, d \in dialects :
          LET obj == t_uniformity(t, d)
          IN  /\ table = obj.table
              /\ dialect = obj.dialect
              /\ lambda_sum = obj.lambda_sum
    /\ ret = NoCall

Init ==
    /\ New({NoTable} \cup {SomeTable(rows) : rows \in MainTables},
           {NoDialect, GoodDialect, BadDialect})
    /\ scores = <<>>

(* A method call that stored m.lambda_sum in the instance and returned or *)
(* raised as m says.                                                       *)
Returns(op, delta, m) ==
    /\ lambda_sum' = m.lambda_sum
    /\ ret' = Call(op, m.kind, delta, m.val, m.detects)

Compute ==
    /\ Returns("compute", 0, compute(instance))
    /\ UNCHANGED <<table, dialect, scores>>

OverallScore(delta) ==
    /\ Returns("overall_score", delta, overall_score(instance, delta))
    /\ UNCHANGED <<table, dialect, scores>>

(* The caller keeps the list compute_type_scores() returned. *)
Keeps(m) == scores' = IF m.kind = "return" THEN m.val ELSE scores

ComputeTypeScores ==
    /\ Returns("compute_type_scores", 0, compute_type_scores(instance))
    /\ Keeps(compute_type_scores(instance))
    /\ UNCHANGED <<table, dialect>>

ComputeTau2 ==
    /\ ret' = Call("compute_tau2", "return", 0, <<compute_tau2(scores)>>, 0)
    /\ UNCHANGED <<table, dialect, lambda_sum, scores>>

ComputeTau3 ==
    /\ ret' = IF table.none
              THEN Call("compute_tau3", "TypeError", 0, <<>>, 0)
              ELSE Call("compute_tau3", "return", 0, <<compute_tau3(instance)>>, 0)
    /\ UNCHANGED <<table, dialect, lambda_sum, scores>>

AvgFields ==
    /\ ret' = IF table.none
              THEN Call("avg_fields", "TypeError", 0, <<>>, 0)
              ELSE Call("avg_fields", "return", 0, <<avg_fields(instance)>>, 0)
    /\ UNCHANGED <<table, dialect, lambda_sum, scores>>

(* t_score(csv_path, dialect, threshold).compute() with this dialect. *)
ScoreFile(csv_path) ==
    /\ ret' = Call("t_score.compute", t_score_compute(csv_path, dialect), 0, <<>>, 0)
    /\ UNCHANGED <<table, dialect, lambda_sum, scores>>

(* The caller empties the list it passed as the table; the instance holds  *)
(* the same list.                                                          *)
ClearTable ==
    /\ ~table.none
    /\ table.rows # <<>>
    /\ table' = SomeTable(<<>>)
    /\ ret' = NoCall
    /\ UNCHANGED <<dialect, lambda_sum, scores>>

(* Lines 134-176 of compute() alone: base_tau_1 and tau_1 of the field     *)
(* counts of a non-empty table.                                            *)
ScanCounts ==
    /\ ~table.none
    /\ table.rows # <<>>
    /\ LET fl == field_lengths(table.rows)
       IN  ret' = Call("tau_1", "return", 0, <<base_tau_1(fl), tau_1(fl)>>, 0)
    /\ UNCHANGED <<table, dialect, lambda_sum, scores>>

Next ==
    \/ Compute
    \/ \E delta \in Deltas : OverallScore(delta)
    \/ ComputeTypeScores
    \/ ComputeTau2
    \/ ComputeTau3
    \/ AvgFields
    \/ \E csv_path \in {"None", "", "a.csv"} : ScoreFile(csv_path)
    \/ ClearTable

Spec == Init /\ [][Next]_vars

(* The tau_1 scan on sequences of field counts. *)
InitScan ==
    /\ New({SomeTable(rows) : rows \in ScanTables}, {GoodDialect})
    /\ scores = <<>>

NextScan == ScanCounts

SpecScan == InitScan /\ [][NextScan]_vars

(* compute_tau2 on lists of column averages. *)
InitTau2 ==
    /\ New({SomeTable(<<>>)}, {GoodDialect})
    /\ scores \in ScoreLists

NextTau2 == ComputeTau2

SpecTau2 == InitTau2 /\ [][NextTau2]_vars

(* compute_type_scores on ragged and on wide tables. *)
InitTypes ==
    /\ New({SomeTable(rows) : rows \in MainTables \cup WideTables},
           {GoodDialect, BadDialect})
    /\ scores = <<>>

NextTypes == ComputeTypeScores

SpecTypes == InitTypes /\ [][NextTypes]_vars

----------------------------------------------------------------------------
(* What the specification says of these operations.                        *)

AllSame(s) == \A i \in 1..Len(s) : s[i] = s[1]

(* The number of places where a field count differs from the one before. *)
Transitions(fl) == Cardinality({i \in 2..Len(fl) : fl[i] # fl[i - 1]})

(* The largest number of consecutive equal elements of a non-empty fl. *)
LongestRun(fl) ==
    CHOOSE m \in 1..Len(fl) :
        /\ \E i \in 1..(Len(fl) - m + 1) : \A k \in i..(i + m - 1) : fl[k] = fl[i]
        /\ \A i \in 1..(Len(fl) - m) : \E k \in i..(i + m) : fl[k] # fl[i]

MaxOf(fl) == CHOOSE m \in {fl[i] : i \in 1..Len(fl)} : \A i \in 1..Len(fl) : fl[i] <= m

MinOf(fl) == CHOOSE m \in {fl[i] : i \in 1..Len(fl)} : \A i \in 1..Len(fl) : fl[i] >= m

CellLengths(row) == [j \in 1..Len(row) |-> Len(row[j])]

Invalid == table.none \/ dialect.none \/ ~DialectValid(dialect)

(* C1: with a null table, a null dialect or a dialect that reports itself  *)
(* invalid, compute(), overall_score() and t_score.compute() raise         *)
(* ValueError, return nothing and never call the classifier.               *)
C1_EagerValidation ==
    /\ (ret.op \in {"compute", "overall_score"} /\ Invalid)
          => (ret.kind = "ValueError" /\ ret.val = <<>> /\ ret.detects = 0)
    /\ (ret.op = "t_score.compute" /\ (dialect.none \/ ~DialectValid(dialect)))
          => ret.kind = "ValueError"

(* C2: a compute() call on a table of zero records with a dialect returns  *)
(* five zeros, makes no classifier call and leaves self.lambda_sum as it   *)
(* was.                                                                    *)
C2_EmptySample ==
    [][(ret'.op = "compute" /\ ~table.none /\ table.rows = <<>> /\ ~dialect.none)
          => /\ ret'.kind = "return"
             /\ ret'.val = <<F0, F0, F0, F0, F0>>
             /\ ret'.detects = 0
             /\ lambda_sum' = lambda_sum]_vars

(* compute() has returned on an emptied table whose instance still holds   *)
(* the lambda_sum of the records it had.                                   *)
C2_Witness ==
    /\ ret.op = "compute"
    /\ ret.kind = "return"
    /\ ~table.none
    /\ table.rows = <<>>
    /\ FGt(lambda_sum, F0)
    /\ ret.val[5] = F0

(* C3: on a table and a dialect that are not null, overall_score(delta)    *)
(* returns one scalar for every delta, delta = 0 included, and 0.0 when    *)
(* the table is empty.                                                     *)
C3_NoDivisionFault ==
    (ret.op = "overall_score" /\ ~table.none /\ ~dialect.none)
        => /\ ret.kind = "return"
           /\ Len(ret.val) = 1
           /\ table.rows = <<>> => ret.val[1] = F0

(* C4: when all records of a non-empty table have the same field count,    *)
(* compute() returns tau_0 = 1 and tau_1 = 0; its tau_3 is 0 when all      *)
(* records have the same cell lengths and positive when two differ.        *)
C4_UniformCounts ==
    (/\ ret.op = "compute"
     /\ ret.kind = "return"
     /\ table.rows # <<>>
     /\ AllSame(field_lengths(table.rows)))
        => /\ ret.val[1] = F1
           /\ ret.val[2] = F0
           /\ (\A i \in 1..Len(table.rows) :
                  CellLengths(table.rows[i]) = CellLengths(table.rows[1]))
                 => ret.val[4] = F0
           /\ (\E i \in 1..Len(table.rows) :
                  CellLengths(table.rows[i]) # CellLengths(table.rows[1]))
                 => FGt(ret.val[4], F0)

(* compute() has returned on two records of two fields each whose cell     *)
(* lengths differ.                                                         *)
C4_Witness ==
    /\ ret.op = "compute"
    /\ ret.kind = "return"
    /\ Len(table.rows) = 2
    /\ Len(table.rows[1]) = 2
    /\ Len(table.rows[2]) = 2
    /\ CellLengths(table.rows[1]) # CellLengths(table.rows[2])
    /\ ret.val[1] = F1
    /\ FGt(ret.val[4], F0)

(* C5: compute_tau2 returns 0.0 for the empty list, a value between 0 and  *)
(* 1 for any other list, and exactly 1 when all the column averages are    *)
(* the same.                                                               *)
C5_Tau2Range ==
    ret.op = "compute_tau2"
        => /\ scores = <<>> => ret.val[1] = F0
           /\ scores # <<>> => (FLe(F0, ret.val[1]) /\ FLe(ret.val[1], F1))
           /\ (scores # <<>> /\ AllSame(scores)) => ret.val[1] = F1

(* Two overall_score calls in a row on the same table, both returning, the *)
(* second with the larger positive delta.                                  *)
LargerDelta ==
    /\ ret.op = "overall_score"
    /\ ret'.op = "overall_score"
    /\ ret.kind = "return"
    /\ ret'.kind = "return"
    /\ table' = table
    /\ 0 < ret.delta
    /\ ret.delta < ret'.delta

(* C6, as the specification has it: with a larger delta overall_score      *)
(* returns a strictly smaller score.                                       *)
C6_StrictlyDecreasing ==
    [][LargerDelta => FLt(ret'.val[1], ret.val[1])]_vars

(* C6, amended: with a larger delta overall_score never returns a larger   *)
(* score.                                                                  *)
C6_NonIncreasing ==
    [][LargerDelta => FLe(ret'.val[1], ret.val[1])]_vars

(* overall_score has returned a positive score for the largest delta on a  *)
(* table with records.                                                     *)
C6_Witness ==
    /\ ret.op = "overall_score"
    /\ ret.kind = "return"
    /\ \A d \in Deltas : d <= ret.delta
    /\ table.rows # <<>>
    /\ FGt(ret.val[1], F0)

(* C7: whatever was called before, compute() raises or returns what it     *)
(* does on a new instance with the same table and dialect, and the         *)
(* lambda_sum it returns is the one compute_type_scores derives from the   *)
(* table.                                                                  *)
C7_HistoryIndependent ==
    ret.op = "compute"
        => LET fresh == t_uniformity(table, dialect)
           IN  /\ ret.kind = compute(fresh).kind
               /\ ret.val = compute(fresh).val
               /\ (ret.kind = "return" /\ table.rows # <<>>)
                     => ret.val[5] = compute_type_scores(fresh).lambda_sum

(* compute() has returned after an earlier compute_type_scores() had left  *)
(* a positive lambda_sum.                                                  *)
C7_Witness ==
    /\ ret.op = "compute"
    /\ ret.kind = "return"
    /\ scores # <<>>
    /\ table.rows # <<>>
    /\ FGt(ret.val[5], F0)

(* C8: when the field counts have a transition, the sm of the scan is the  *)
(* length of the longest run of equal field counts.                        *)
C8_LongestRun ==
    (ret.op = "tau_1" /\ Scan(field_lengths(table.rows)).alpha > 0)
        => Scan(field_lengths(table.rows)).sm = LongestRun(field_lengths(table.rows))

(* C9: alpha is the number of transitions, r is the largest less the       *)
(* smallest field count of all the records, and base_tau_1 and tau_1 are   *)
(* positive exactly when the field counts are not all the same.            *)
C9_AlphaAndRange ==
    ret.op = "tau_1"
        => LET fl == field_lengths(table.rows)
               st == Scan(fl)
           IN  /\ st.alpha = Transitions(fl)
               /\ st.k_max - st.k_min = MaxOf(fl) - MinOf(fl)
               /\ FGt(ret.val[1], F0) <=> ~AllSame(fl)
               /\ FGt(ret.val[2], F0) <=> ~AllSame(fl)

(* The scan has run on field counts whose largest is that of the first     *)
(* record alone.                                                           *)
C9_Witness ==
    /\ ret.op = "tau_1"
    /\ Len(table.rows) >= 3
    /\ \A i \in 2..Len(table.rows) : Len(table.rows[i]) < Len(table.rows[1])
    /\ FGt(ret.val[2], F0)

(* The score the specification gives a field. *)
ScoreOf(field) ==
    IF detect_type(trip_quotes(field, dialect),
                   startswith(field, dialect.quotechar)
                       /\ endswith(field, dialect.quotechar)) # "None"
    THEN ScoreTyped
    ELSE ScoreUntyped

(* The scores of the fields at index j of the first i records, in order. *)
RECURSIVE ColumnOf(_, _, _)
ColumnOf(rows, j, i) ==
    IF i = 0 THEN <<>>
    ELSE IF Len(rows[i]) >= j
    THEN Append(ColumnOf(rows, j, i - 1), ScoreOf(rows[i][j]))
    ELSE ColumnOf(rows, j, i - 1)

(* The scores of all the fields of the first i records, in order. *)
RECURSIVE AllScores(_, _)
AllScores(rows, i) ==
    IF i = 0 THEN <<>>
    ELSE AllScores(rows, i - 1) \o [j \in 1..Len(rows[i]) |-> ScoreOf(rows[i][j])]

TypeScoresReturned ==
    /\ ret.op = "compute_type_scores"
    /\ ret.kind = "return"
    /\ ~table.none
    /\ table.rows # <<>>

(* Column j averages the scores at index j over all the records, and       *)
(* lambda_sum is the total of the scores over the number of columns.       *)
AsDescribed ==
    LET rows == table.rows
        num_cols == MaxOf(field_lengths(rows))
    IN  /\ Len(ret.val) = num_cols
        /\ \A j \in 1..num_cols :
              ret.val[j] = FDiv(FSum(ColumnOf(rows, j, Len(rows))), FromInt(Len(rows)))
        /\ num_cols >= 1
              => lambda_sum = FDiv(FSum(AllScores(rows, Len(rows))), FromInt(num_cols))
        /\ num_cols = 0 => (lambda_sum = F0 /\ ret.val = <<>>)

(* C10, as the specification has it: type scoring is as described and      *)
(* lambda_sum is at least 0.1 when the table has a field.                  *)
C10_AtLeastTenth ==
    TypeScoresReturned
        => /\ AsDescribed
           /\ NumFields(table.rows) > 0 => FLe(ScoreUntyped, lambda_sum)

(* C10, amended: type scoring is as described and lambda_sum is positive   *)
(* when the table has a field.                                             *)
C10_Positive ==
    TypeScoresReturned
        => /\ AsDescribed
           /\ NumFields(table.rows) > 0 => FGt(lambda_sum, F0)

(* compute_type_scores() has returned on records of different lengths, one *)
(* of them with a recognised field.                                        *)
C10_Witness ==
    /\ TypeScoresReturned
    /\ Len(table.rows) = 2
    /\ Len(table.rows[1]) # Len(table.rows[2])
    /\ \E j \in 1..Len(ret.val) : FGt(ret.val[j], F1)
    /\ FGt(lambda_sum, ScoreTyped)

====
